---- MODULE Spec2Model ----
(***************************************************************************)
(* A model of pQP.cu: the host-side reduction of a QP to its dual          *)
(* (z = Q\h, Y = Q\V', h_tilde = W + V*z, Q_tilde = V*Y) followed by the   *)
(* allocation of the two device buffers.                                   *)
(*                                                                         *)
(* Doubles are modelled as exact rationals <<num, den>> (den > 0, lowest   *)
(* terms), plus NaN and a marker for a cell that was never written.        *)
(* Buffers are functions from 0..len-1 to cells.                            *)
(***************************************************************************)
EXTENDS Integers, Sequences, FiniteSets, TLC

(* pQP.cuh (not part of the sources at hand) defines N; 2 is the value of  *)
(* the reference scenario.                                                  *)
N == 2

EXIT_SUCCESS == 0
EXIT_FAILURE == 1
ALLOC_EXIT == 305

(* Largest row/column count of the matrices given to copy_as_transpose in  *)
(* the transpose specification.                                             *)
MaxDim == 2

(* A pointer is NULL, dangling after free, or the cells 0..len-1 it points *)
(* to; the first two are the functions with no cell 0.                     *)
NULL == <<>>
FREED == <<"freed">>

-----------------------------------------------------------------------------
(* real_t arithmetic *)

NaN == <<0, 0>>
Uninit == <<0, -1>>

Abs(x) == IF x < 0 THEN -x ELSE x

RECURSIVE GCD(_, _)
GCD(a, b) == IF b = 0 THEN a ELSE GCD(b, a % b)

Rat(n, d) ==
    IF d = 0 THEN NaN
    ELSE LET g == GCD(Abs(n), Abs(d))
             s == IF d < 0 THEN -1 ELSE 1
         IN  <<(s * n) \div g, (s * d) \div g>>

RInt(n) == <<n, 1>>
Zero == RInt(0)
One == RInt(1)

IsNaN(a) == a = NaN

RAdd(a, b) == IF IsNaN(a) \/ IsNaN(b) THEN NaN
              ELSE Rat(a[1] * b[2] + b[1] * a[2], a[2] * b[2])
RSub(a, b) == IF IsNaN(a) \/ IsNaN(b) THEN NaN
              ELSE Rat(a[1] * b[2] - b[1] * a[2], a[2] * b[2])
RMul(a, b) == IF IsNaN(a) \/ IsNaN(b) THEN NaN
              ELSE Rat(a[1] * b[1], a[2] * b[2])
RDiv(a, b) == IF IsNaN(a) \/ IsNaN(b) THEN NaN
              ELSE Rat(a[1] * b[2], a[2] * b[1])
RAbs(a) == <<Abs(a[1]), a[2]>>
RLess(a, b) == a[1] * b[2] < b[1] * a[2]

RECURSIVE SumTo(_, _)
SumTo(f, k) == IF k = 0 THEN Zero ELSE RAdd(SumTo(f, k - 1), f[k - 1])

-----------------------------------------------------------------------------
VARIABLES
    pc,        \* the statement main (or a driver) executes next
    host,      \* the host pointers of main: NULL, FREED or the buffer's cells
    dev,       \* the device pointers of main: NULL or the buffer's cells
    heap,      \* what a read of a never-written cell of malloc'ed memory yields
    info,      \* main's variable info
    initRet,   \* what init_matrices returned (-1: not called or not returned)
    exitCode,  \* the process's exit status (-1: still running)
    trace,     \* the steps performed so far, in order
    ubRead,    \* the buffers that were read while holding a never-written cell
    Q0,        \* the cells of Q as init_matrices left them
    tp         \* the buffers of the copy_as_transpose driver

vars == <<pc, host, dev, heap, info, initRet, exitCode, trace, ubRead, Q0, tp>>

HostBufs == <<"Q", "Q_copy_1", "h", "V", "W", "Y", "z", "Q_tilde", "h_tilde">>

HostLen(b) ==
    CASE b = "Q" -> N * N
      [] b = "Q_copy_1" -> N * N
      [] b = "h" -> N
      [] b = "V" -> 2 * N * N
      [] b = "W" -> 2 * N
      [] b = "Y" -> 2 * N * N
      [] b = "z" -> N
      [] b = "Q_tilde" -> (2 * N) * (2 * N)
      [] b = "h_tilde" -> 2 * N

DevLen(b) == IF b = "Q_tilde_dev" THEN (2 * N) * (2 * N) ELSE 2 * N

(* malloc / cudaMalloc success: memory whose cells were never written *)
Fresh(len) == [i \in 0 .. len - 1 |-> Uninit]

IsBuf(b) == 0 \in DOMAIN b

(* the value a read of cell i of buf yields *)
Ld(buf, i) == IF buf[i] = Uninit THEN heap ELSE buf[i]

UninitIn(buf) == \E i \in DOMAIN buf : buf[i] = Uninit

(* the names among bs whose buffer holds a never-written cell *)
UninitAmong(bs) == {b \in bs : UninitIn(host[b])}

-----------------------------------------------------------------------------
(* memcpy(dest, source, len * sizeof(double)) *)
memcpy(dest, source, len) ==
    [i \in DOMAIN dest |-> IF i < len THEN Ld(source, i) ELSE dest[i]]

(* copy_as_transpose: the two nested loops, i outer and j inner *)
RECURSIVE TransposeLoop(_, _, _, _, _, _)
TransposeLoop(dest, source, n_rows_source, n_cols_source, i, j) ==
    IF i >= n_rows_source THEN dest
    ELSE IF j >= n_cols_source
         THEN TransposeLoop(dest, source, n_rows_source, n_cols_source, i + 1, 0)
         ELSE TransposeLoop(
                [dest EXCEPT ![j * n_rows_source + i] = Ld(source, i * n_cols_source + j)],
                source, n_rows_source, n_cols_source, i, j + 1)

RECURSIVE TransposeLoop_ColStride(_, _, _, _, _, _)
TransposeLoop_ColStride(dest, source, n_rows_source, n_cols_source, i, j) ==
    IF i >= n_rows_source THEN dest
    ELSE IF j >= n_cols_source
         THEN TransposeLoop_ColStride(dest, source, n_rows_source, n_cols_source, i + 1, 0)
         ELSE TransposeLoop_ColStride(
                [dest EXCEPT ![j * n_cols_source + i] = Ld(source, i * n_cols_source + j)],
                source, n_rows_source, n_cols_source, i, j + 1)

copy_as_transpose_ColStride(dest, source, n_rows_source, n_cols_source) ==
    TransposeLoop_ColStride(dest, source, n_rows_source, n_cols_source, 0, 0)

copy_as_transpose(dest, source, n_rows_source, n_cols_source) ==
    TransposeLoop(dest, source, n_rows_source, n_cols_source, 0, 0)

(* cblas_dgemm, column major, B not transposed: C <- alpha*op(A)*B + beta*C, *)
(* op(A) m x k, B k x n, C m x n; with beta = 0 C is not read               *)
cblas_dgemm(transA, m, n, k, alpha, A, lda, B, ldb, beta, C, ldc) ==
    [idx \in DOMAIN C |->
        LET i == idx % ldc
            j == idx \div ldc
            a(l) == IF transA THEN Ld(A, i * lda + l) ELSE Ld(A, l * lda + i)
            prod == SumTo([l \in 0 .. k - 1 |-> RMul(a(l), Ld(B, j * ldb + l))], k)
        IN  IF i < m /\ j < n
            THEN IF beta = Zero THEN RMul(alpha, prod)
                 ELSE RAdd(RMul(alpha, prod), RMul(beta, Ld(C, idx)))
            ELSE C[idx]]

(* cblas_dgemv, column major, no transpose, unit increments:                *)
(* y <- alpha*A*x + beta*y, A m x n                                         *)
cblas_dgemv(m, n, alpha, A, lda, x, beta, y) ==
    [i \in DOMAIN y |->
        LET prod == SumTo([l \in 0 .. n - 1 |-> RMul(Ld(A, l * lda + i), Ld(x, l))], n)
        IN  IF i < m THEN RAdd(RMul(alpha, prod), RMul(beta, Ld(y, i)))
            ELSE y[i]]

-----------------------------------------------------------------------------
(* LAPACKE_dgesv, column major: LU with partial pivoting of A in place       *)
(* (dgetrf), then the solve of A*X = B in place of B (dgetrs).              *)

(* idamax over rows k..n-1 of column k: the first row of largest magnitude *)
PivotRow(A, lda, n, k) ==
    CHOOSE p \in k .. n - 1 :
        /\ \A q \in k .. n - 1 : ~RLess(RAbs(A[k * lda + p]), RAbs(A[k * lda + q]))
        /\ \A q \in k .. p - 1 : RLess(RAbs(A[k * lda + q]), RAbs(A[k * lda + p]))

(* dswap of rows r1 and r2 over the first ncols columns *)
SwapRows(X, ldx, ncols, r1, r2) ==
    [idx \in DOMAIN X |->
        LET i == idx % ldx
            j == idx \div ldx
        IN  IF j < ncols /\ i = r1 THEN X[j * ldx + r2]
            ELSE IF j < ncols /\ i = r2 THEN X[j * ldx + r1]
            ELSE X[idx]]

(* one column of the elimination: pivot, scale the column, update the rest *)
EliminateColumn(A, lda, n, k, p) ==
    LET swapped == SwapRows(A, lda, n, k, p)
        pivot == swapped[k * lda + k]
        scaled == [idx \in DOMAIN A |->
                    LET i == idx % lda
                        j == idx \div lda
                    IN  IF j = k /\ i > k /\ i < n
                        THEN RDiv(swapped[idx], pivot) ELSE swapped[idx]]
        L == IF A[k * lda + p] = Zero THEN A ELSE scaled
    IN  [idx \in DOMAIN A |->
            LET i == idx % lda
                j == idx \div lda
            IN  IF i > k /\ i < n /\ j > k /\ j < n
                THEN RSub(L[idx], RMul(L[k * lda + i], L[j * lda + k]))
                ELSE L[idx]]

(* dgetrf: [a |-> the factors, ipiv |-> the pivot rows, info |-> 0 or the  *)
(* 1-based index of the first zero pivot]                                  *)
RECURSIVE dgetrf(_, _, _, _, _, _)
dgetrf(A, lda, n, k, ipiv, inf) ==
    IF k >= n THEN [a |-> A, ipiv |-> ipiv, info |-> inf]
    ELSE LET p == PivotRow(A, lda, n, k)
             singular == A[k * lda + p] = Zero
         IN  dgetrf(EliminateColumn(A, lda, n, k, p), lda, n, k + 1,
                    Append(ipiv, p),
                    IF singular /\ inf = 0 THEN k + 1 ELSE inf)

(* dlaswp: the row interchanges of ipiv applied to B in order *)
RECURSIVE ApplyPivots(_, _, _, _, _)
ApplyPivots(B, ldb, nrhs, ipiv, k) ==
    IF k > Len(ipiv) THEN B
    ELSE ApplyPivots(SwapRows(B, ldb, nrhs, k - 1, ipiv[k]), ldb, nrhs, ipiv, k + 1)

(* dtrsm with the unit lower triangle of LU: column k eliminated from below *)
RECURSIVE ForwardSolve(_, _, _, _, _, _, _)
ForwardSolve(LU, lda, n, B, ldb, nrhs, k) ==
    IF k >= n THEN B
    ELSE ForwardSolve(LU, lda, n,
            [idx \in DOMAIN B |->
                LET i == idx % ldb
                    j == idx \div ldb
                IN  IF i > k /\ i < n /\ j < nrhs
                    THEN RSub(B[idx], RMul(LU[k * lda + i], B[j * ldb + k]))
                    ELSE B[idx]],
            ldb, nrhs, k + 1)

(* dtrsm with the upper triangle of LU: rows n-1 down to 0 *)
RECURSIVE BackwardSolve(_, _, _, _, _, _, _)
BackwardSolve(LU, lda, n, B, ldb, nrhs, k) ==
    IF k < 0 THEN B
    ELSE LET divided == [idx \in DOMAIN B |->
                            LET i == idx % ldb
                                j == idx \div ldb
                            IN  IF i = k /\ j < nrhs
                                THEN RDiv(B[idx], LU[k * lda + k]) ELSE B[idx]]
         IN  BackwardSolve(LU, lda, n,
                [idx \in DOMAIN B |->
                    LET i == idx % ldb
                        j == idx \div ldb
                    IN  IF i < k /\ j < nrhs
                        THEN RSub(divided[idx], RMul(LU[k * lda + i], divided[j * ldb + k]))
                        ELSE divided[idx]],
                ldb, nrhs, k - 1)

(* what the cells of a buffer hold when read *)
Loaded(buf) == [i \in DOMAIN buf |-> Ld(buf, i)]

HasNaN(buf) == \E i \in DOMAIN buf : IsNaN(buf[i])

(* [info, a, b]: -4 / -7 when a / b holds a NaN (LAPACKE's input check,    *)
(* nothing touched); i > 0 when pivot i is exactly zero (a factored, b      *)
(* left as it was); 0 with b overwritten by the solution otherwise          *)
LAPACKE_dgesv(n, nrhs, a, lda, b, ldb) ==
    LET A == Loaded(a)
        B == Loaded(b)
        f == dgetrf(A, lda, n, 0, <<>>, 0)
    IN  IF HasNaN(A) THEN [info |-> -4, a |-> a, b |-> b]
        ELSE IF HasNaN(B) THEN [info |-> -7, a |-> a, b |-> b]
        ELSE IF f.info # 0 THEN [info |-> f.info, a |-> f.a, b |-> b]
        ELSE [info |-> 0, a |-> f.a,
              b |-> BackwardSolve(f.a, lda, n,
                        ForwardSolve(f.a, lda, n,
                            ApplyPivots(B, ldb, nrhs, f.ipiv, 1), ldb, nrhs, 0),
                        ldb, nrhs, n - 1)]

-----------------------------------------------------------------------------
(* The data provider *)

RAND_MAX == 2147483647

(* the results of rand() the model draws from: they give 0, -1/2 and -1/4; *)
(* all are below RAND_MAX/2, where 2 * rand() does not overflow an int      *)
RandDraws == {1073741823, 1073741573, 1073741698}

(* C's % : the remainder has the sign of the dividend *)
CRem(x, m) == IF x >= 0 THEN x % m ELSE -((-x) % m)

(* (real_t) ((2 * rand() - RAND_MAX) % 1000 + 1) / 1000.0 *)
RandReal(r) == Rat(CRem(2 * r - RAND_MAX, 1000) + 1, 1000)

(* an entry of trace: the operation, the buffer or matrix it is about, the  *)
(* buffers it reads and writes, and its status (malloc: 1 when it gave NULL) *)
Ev(op, a, reads, writes, inf) ==
    [op |-> op, a |-> a, reads |-> reads, writes |-> writes, info |-> inf]

NullArgument_WUntested(Q, h, V, W) == Q = NULL \/ h = NULL \/ V = NULL

(* one of init_matrices' four null tests fires *)
NullArgument(Q, h, V, W) == Q = NULL \/ h = NULL \/ V = NULL \/ W = NULL

(* a store through one of the four pointers; through NULL it is a crash *)
Store(st, name, idx, val) ==
    IF st.crashed THEN st
    ELSE IF ~IsBuf(st[name]) THEN [st EXCEPT !.crashed = TRUE]
    ELSE [st EXCEPT ![name][idx] = val]

(* the loop over i that shifts Q's diagonal and fills h, V and W *)
RECURSIVE FillLoop(_, _, _)
FillLoop(st, i, rh) ==
    IF i >= N \/ st.crashed THEN st
    ELSE LET s1 == IF IsBuf(st.Q)
                   THEN Store(st, "Q", i * (N + 1),
                              RAdd(Ld(st.Q, i * (N + 1)), RMul(RInt(2), RInt(N))))
                   ELSE [st EXCEPT !.crashed = TRUE]
             s2 == Store(s1, "h", i, RandReal(rh[i]))
             s3 == Store(s2, "V", i * (2 * N + 1), One)
             s4 == Store(s3, "V", i * (2 * N + 1) + N, RInt(-1))
             s5 == Store(s4, "W", i, RInt(10))
             s6 == Store(s5, "W", i + N, RInt(-9))
         IN  FillLoop(s6, i + 1, rh)

(* init_matrices(Q, h, V, W), with Q_init what its malloc returned and rq,  *)
(* rh the results of its calls of rand().  ret is -1 when it never returns. *)
(* ops lists the allocation and the multiply it performed.                  *)
init_matrices(Q, h, V, W, Q_init, rq, rh) ==
    LET st0 == [Q |-> Q, h |-> h, V |-> V, W |-> W, crashed |-> FALSE]
        filled == [i \in 0 .. N * N - 1 |-> RandReal(rq[i])]
        st1 == IF IsBuf(Q)
               THEN [st0 EXCEPT !.Q = cblas_dgemm(TRUE, N, N, N, One, filled, N,
                                                  filled, N, Zero, Q, N)]
               ELSE [st0 EXCEPT !.crashed = TRUE]
        st2 == FillLoop(st1, 0, rh)
    IN  IF NullArgument(Q, h, V, W)
        THEN [ret |-> EXIT_FAILURE, st |-> st0, ops |-> <<>>]
        ELSE IF Q_init = NULL
        THEN [ret |-> -1, st |-> [st0 EXCEPT !.crashed = TRUE],
              ops |-> <<Ev("malloc", "Q_init", {}, {}, 1)>>]
        ELSE [ret |-> IF st2.crashed THEN -1 ELSE EXIT_SUCCESS, st |-> st2,
              ops |-> <<Ev("malloc", "Q_init", {}, {}, 0),
                        Ev("dgemm", "", {}, {"Q"}, 0)>>]

(* HANDLE_ALLOCATION_ERROR(x, ...): TRUE when it ends the process *)
HANDLE_ALLOCATION_ERROR(x) == x = NULL

(* HandleError(err, ...): TRUE when it ends the process *)
HandleError(err) == err # "cudaSuccess"

-----------------------------------------------------------------------------
(* main *)

Statements_MultiplyFirst ==
    <<"memcpy_z", "memcpy_Q", "dgesv_z", "memcpy_h_tilde", "dgemv", "free",
      "transpose", "dgemm", "dgesv_Y", "cudaMalloc_Q", "cudaMalloc_h", "return">>

(* the statements of main after the call of init_matrices, in program order *)
Statements ==
    <<"memcpy_z", "memcpy_Q", "dgesv_z", "memcpy_h_tilde", "dgemv", "free",
      "transpose", "dgesv_Y", "dgemm", "cudaMalloc_Q", "cudaMalloc_h", "return">>

(* the statement that follows statement l *)
NextStmt(l) ==
    LET k == CHOOSE i \in 1 .. Len(Statements) : Statements[i] = l
    IN  Statements[k + 1]

SolveZOperand_Original == "Q"

(* the matrix the first solve is given to factorize *)
SolveZOperand == "Q_copy_1"

(* the matrix the second solve is given to factorize *)
SolveYOperand == "Q"

Usable(bs) == \A b \in bs : IsBuf(host[b])

(* a statement that goes through a pointer that is NULL or freed *)
Crash(l) ==
    /\ pc' = "crashed"
    /\ trace' = Append(trace, Ev("crash", l, {}, {}, 0))
    /\ UNCHANGED <<host, dev, heap, info, initRet, exitCode, ubRead, Q0, tp>>

(* a statement l of main that reads rd, writes wr, and leaves host as h2 *)
Step(l, op, a, rd, wr, h2, inf) ==
    /\ pc = l
    /\ IF Usable(rd \cup wr)
       THEN /\ host' = h2
            /\ info' = inf
            /\ pc' = NextStmt(l)
            /\ trace' = Append(trace, Ev(op, a, rd, wr, inf))
            /\ ubRead' = ubRead \cup UninitAmong(rd)
            /\ UNCHANGED <<dev, heap, initRet, exitCode, Q0, tp>>
       ELSE Crash(l)

(* lines 138-155: the next buffer of HostBufs is allocated and tested *)
AllocHost ==
    /\ pc = "alloc"
    /\ LET k == Cardinality({i \in 1 .. Len(HostBufs) : host[HostBufs[i]] # NULL}) + 1
           b == HostBufs[k]
       IN  \E ok \in BOOLEAN :
             LET x == IF ok THEN Fresh(HostLen(b)) ELSE NULL
             IN  /\ trace' = Append(trace, Ev("malloc", b, {}, {}, IF ok THEN 0 ELSE 1))
                 /\ IF HANDLE_ALLOCATION_ERROR(x)
                    THEN /\ pc' = "exited"
                         /\ exitCode' = ALLOC_EXIT
                         /\ UNCHANGED host
                    ELSE /\ host' = [host EXCEPT ![b] = x]
                         /\ pc' = IF k = Len(HostBufs) THEN "init_matrices" ELSE "alloc"
                         /\ UNCHANGED exitCode
    /\ UNCHANGED <<dev, heap, info, initRet, ubRead, Q0, tp>>

(* what a call init_matrices(Q, h, V, W) on the pointers in hst does to them *)
InitCall(hst, Q_init, rq, rh) ==
    LET r == init_matrices(hst["Q"], hst["h"], hst["V"], hst["W"], Q_init, rq, rh)
    IN  [ret |-> r.ret, ops |-> r.ops,
         host |-> [hst EXCEPT !["Q"] = r.st.Q, !["h"] = r.st.h,
                              !["V"] = r.st.V, !["W"] = r.st.W]]

(* line 158: the call of init_matrices, its result discarded *)
CallInitMatrices ==
    /\ pc = "init_matrices"
    /\ \E ok \in BOOLEAN, rq \in [0 .. N * N - 1 -> RandDraws],
          rh \in [0 .. N - 1 -> RandDraws] :
         LET r == InitCall(host, IF ok THEN Fresh(N * N) ELSE NULL, rq, rh)
         IN  /\ host' = r.host
             /\ initRet' = r.ret
             /\ Q0' = r.host["Q"]
             /\ trace' = trace \o r.ops \o <<Ev(IF r.ret = -1 THEN "crash" ELSE "init_matrices",
                                                  "init_matrices", {}, {}, r.ret)>>
             /\ pc' = IF r.ret = -1 THEN "crashed" ELSE Statements[1]
    /\ UNCHANGED <<dev, heap, info, exitCode, ubRead, tp>>

(* line 163 *)
MemcpyZ ==
    Step("memcpy_z", "memcpy", "", {"h"}, {"z"},
         [host EXCEPT !["z"] = memcpy(host["z"], host["h"], N)], info)

(* line 164 *)
MemcpyQ ==
    Step("memcpy_Q", "memcpy", "", {"Q"}, {"Q_copy_1"},
         [host EXCEPT !["Q_copy_1"] = memcpy(host["Q_copy_1"], host["Q"], N * N)], info)

(* lines 165-166 *)
SolveZ ==
    /\ pc = "dgesv_z"
    /\ \E A \in {SolveZOperand} :
      \E r \in {IF Usable({A, "z"}) THEN LAPACKE_dgesv(N, 1, host[A], N, host["z"], N)
                ELSE [info |-> -1, a |-> NULL, b |-> NULL]} :
        Step("dgesv_z", "dgesv", A, {A, "z"}, {A, "z"},
             [host EXCEPT ![A] = r.a, !["z"] = r.b], r.info)

(* line 167 *)
MemcpyHTilde ==
    Step("memcpy_h_tilde", "memcpy", "", {"W"}, {"h_tilde"},
         [host EXCEPT !["h_tilde"] = memcpy(host["h_tilde"], host["W"], 2 * N)], info)

(* lines 168-169 *)
Dgemv ==
    Step("dgemv", "dgemv", "", {"V", "z", "h_tilde"}, {"h_tilde"},
         [host EXCEPT !["h_tilde"] =
             cblas_dgemv(2 * N, N, One, host["V"], 2 * N, host["z"], One, host["h_tilde"])],
         info)

(* line 170 *)
FreeQCopy ==
    /\ pc = "free"
    /\ host' = [host EXCEPT !["Q_copy_1"] = FREED]
    /\ pc' = NextStmt("free")
    /\ trace' = Append(trace, Ev("free", "Q_copy_1", {}, {}, 0))
    /\ UNCHANGED <<dev, heap, info, initRet, exitCode, ubRead, Q0, tp>>

Transpose_SwappedDims ==
    Step("transpose", "transpose", "", {"V"}, {"Y"},
         [host EXCEPT !["Y"] = copy_as_transpose(host["Y"], host["V"], 2 * N, N)], info)

(* line 175 *)
Transpose ==
    Step("transpose", "transpose", "", {"V"}, {"Y"},
         [host EXCEPT !["Y"] = copy_as_transpose(host["Y"], host["V"], N, 2 * N)], info)

(* lines 184-185 *)
SolveY ==
    /\ pc = "dgesv_Y"
    /\ \E A \in {SolveYOperand} :
      \E r \in {IF Usable({A, "Y"}) THEN LAPACKE_dgesv(N, 2 * N, host[A], N, host["Y"], N)
                ELSE [info |-> -1, a |-> NULL, b |-> NULL]} :
        Step("dgesv_Y", "dgesv", A, {A, "Y"}, {A, "Y"},
             [host EXCEPT ![A] = r.a, !["Y"] = r.b], r.info)

(* lines 191-194 *)
Dgemm ==
    Step("dgemm", "dgemm", "", {"V", "Y"}, {"Q_tilde"},
         [host EXCEPT !["Q_tilde"] =
             cblas_dgemm(FALSE, 2 * N, 2 * N, N, One, host["V"], 2 * N,
                         host["Y"], N, Zero, host["Q_tilde"], 2 * N)],
         info)

(* cudaMalloc of device buffer b at statement l, wrapped in HANDLE_CUDA_ERROR *)
CudaMalloc(l, b) ==
    /\ pc = l
    /\ \E err \in {"cudaSuccess", "cudaErrorMemoryAllocation"} :
         /\ trace' = Append(trace, Ev("cudaMalloc", b, {}, {}, IF err = "cudaSuccess" THEN 0 ELSE 1))
         /\ dev' = IF err = "cudaSuccess" THEN [dev EXCEPT ![b] = Fresh(DevLen(b))] ELSE dev
         /\ IF HandleError(err)
            THEN pc' = "exited" /\ exitCode' = EXIT_FAILURE
            ELSE pc' = NextStmt(l) /\ UNCHANGED exitCode
    /\ UNCHANGED <<host, heap, info, initRet, ubRead, Q0, tp>>

(* lines 202-203 *)
CudaMallocQ == CudaMalloc("cudaMalloc_Q", "Q_tilde_dev")

(* lines 205-206 *)
CudaMallocH == CudaMalloc("cudaMalloc_h", "h_tilde_dev")

(* line 208 *)
Return ==
    /\ pc = "return"
    /\ pc' = "returned"
    /\ exitCode' = 0
    /\ trace' = Append(trace, Ev("return", "", {}, {}, 0))
    /\ UNCHANGED <<host, dev, heap, info, initRet, ubRead, Q0, tp>>

(* the values a never-written cell may turn out to hold *)
HeapVals == {Zero, One, NaN}

NoTp == [rows |-> 0, cols |-> 0, V |-> <<>>, V0 |-> <<>>, T |-> <<>>, V2 |-> <<>>,
         step |-> 0]

(* lines 121-134: every pointer NULL *)
Init ==
    /\ pc = "alloc"
    /\ host = [b \in {HostBufs[i] : i \in 1 .. Len(HostBufs)} |-> NULL]
    /\ dev = [b \in {"Q_tilde_dev", "h_tilde_dev"} |-> NULL]
    /\ heap \in HeapVals
    /\ info = 0
    /\ initRet = -1
    /\ exitCode = -1
    /\ trace = <<>>
    /\ ubRead = {}
    /\ Q0 = NULL
    /\ tp = NoTp

Pipeline ==
    \/ MemcpyZ \/ MemcpyQ \/ SolveZ \/ MemcpyHTilde \/ Dgemv \/ FreeQCopy
    \/ Transpose \/ SolveY \/ Dgemm \/ CudaMallocQ \/ CudaMallocH \/ Return

Next == AllocHost \/ CallInitMatrices \/ Pipeline

Spec == Init /\ [][Next]_vars

-----------------------------------------------------------------------------
(* init_matrices called directly, on pointers of which any may be NULL *)

NullOr(ok, b) == IF ok THEN Fresh(HostLen(b)) ELSE NULL

InitDriver ==
    /\ pc = "driver"
    /\ \E okQ \in BOOLEAN, okh \in BOOLEAN, okV \in BOOLEAN, okW \in BOOLEAN :
         host = [b \in {HostBufs[i] : i \in 1 .. Len(HostBufs)} |->
                   CASE b = "Q" -> NullOr(okQ, b)
                     [] b = "h" -> NullOr(okh, b)
                     [] b = "V" -> NullOr(okV, b)
                     [] b = "W" -> NullOr(okW, b)
                     [] OTHER -> NULL]
    /\ dev = [b \in {"Q_tilde_dev", "h_tilde_dev"} |-> NULL]
    /\ heap = Zero
    /\ info = 0
    /\ initRet = -1
    /\ exitCode = -1
    /\ trace = <<>>
    /\ ubRead = {}
    /\ Q0 = NULL
    /\ tp = NoTp

DriverInitMatrices ==
    /\ pc = "driver"
    /\ \E ok \in BOOLEAN, rq \in [0 .. N * N - 1 -> RandDraws],
          rh \in [0 .. N - 1 -> RandDraws] :
         LET r == InitCall(host, IF ok THEN Fresh(N * N) ELSE NULL, rq, rh)
         IN  /\ host' = r.host
             /\ initRet' = r.ret
             /\ Q0' = r.host["Q"]
             /\ trace' = trace \o r.ops \o <<Ev(IF r.ret = -1 THEN "crash" ELSE "init_matrices",
                                                  "init_matrices", {}, {}, r.ret)>>
             /\ pc' = IF r.ret = -1 THEN "crashed" ELSE "driver_done"
    /\ UNCHANGED <<dev, heap, info, exitCode, ubRead, tp>>

NextProvider == Next \/ DriverInitMatrices

(* the program, and init_matrices as a function other callers may call *)
InitProvider == Init \/ InitDriver

SpecProvider == InitProvider /\ [][NextProvider]_vars

-----------------------------------------------------------------------------
(* PART A to the end of main, on problem data placed in Q, h, V and W *)

FromSeq(seq) == [i \in 0 .. Len(seq) - 1 |-> RInt(seq[i + 1])]

ScenarioQ == FromSeq(<<3, 0, 0, 3>>)
ScenarioH == FromSeq(<<1, 1>>)
ScenarioV == FromSeq(<<1, 0, -1, 0, 0, 1, 0, -1>>)
ScenarioW == FromSeq(<<10, 10, -9, -9>>)

ReduceQs == {ScenarioQ, FromSeq(<<2, 1, 1, 2>>), FromSeq(<<1, 1, 1, 1>>),
             FromSeq(<<0, 1, 1, 0>>), FromSeq(<<1, 3, 2, 4>>)}
ReduceHs == {ScenarioH, FromSeq(<<1, -2>>)}
ReduceVs == {ScenarioV, FromSeq(<<1, 0, -1, 3, 2, 1, 0, -1>>)}
ReduceWs == {ScenarioW, FromSeq(<<0, 1, 2, 3>>)}

InitReduce ==
    /\ pc = Statements[1]
    /\ \E q \in ReduceQs, hh \in ReduceHs, v \in ReduceVs, w \in ReduceWs :
         /\ host = [b \in {HostBufs[i] : i \in 1 .. Len(HostBufs)} |->
                      CASE b = "Q" -> q
                        [] b = "h" -> hh
                        [] b = "V" -> v
                        [] b = "W" -> w
                        [] OTHER -> Fresh(HostLen(b))]
         /\ Q0 = q
    /\ dev = [b \in {"Q_tilde_dev", "h_tilde_dev"} |-> NULL]
    /\ heap = Zero
    /\ info = 0
    /\ initRet = EXIT_SUCCESS
    /\ exitCode = -1
    /\ trace = <<>>
    /\ ubRead = {}
    /\ tp = NoTp

SpecReduce == InitReduce /\ [][Pipeline]_vars

-----------------------------------------------------------------------------
(* copy_as_transpose applied twice: T <- V', then V2 <- T' *)

TransposeVals == {Zero, One, RInt(2)}

InitTranspose ==
    /\ pc = "transpose_driver"
    /\ \E rows \in 1 .. MaxDim, cols \in 1 .. MaxDim :
         \E v \in [0 .. rows * cols - 1 -> TransposeVals] :
            tp = [rows |-> rows, cols |-> cols, V |-> v, V0 |-> v,
                  T |-> Fresh(rows * cols + 1), V2 |-> Fresh(rows * cols + 1),
                  step |-> 0]
    /\ host = [b \in {HostBufs[i] : i \in 1 .. Len(HostBufs)} |-> NULL]
    /\ dev = [b \in {"Q_tilde_dev", "h_tilde_dev"} |-> NULL]
    /\ heap = Zero
    /\ info = 0
    /\ initRet = -1
    /\ exitCode = -1
    /\ trace = <<>>
    /\ ubRead = {}
    /\ Q0 = NULL

(* copy_as_transpose(T, V, rows, cols) *)
TransposeThere ==
    /\ tp.step = 0
    /\ tp' = [tp EXCEPT !.T = copy_as_transpose(tp.T, tp.V, tp.rows, tp.cols),
                        !.step = 1]
    /\ UNCHANGED <<pc, host, dev, heap, info, initRet, exitCode, trace, ubRead, Q0>>

(* copy_as_transpose(V2, T, cols, rows) *)
TransposeBack ==
    /\ tp.step = 1
    /\ tp' = [tp EXCEPT !.V2 = copy_as_transpose(tp.V2, tp.T, tp.cols, tp.rows),
                        !.step = 2]
    /\ UNCHANGED <<pc, host, dev, heap, info, initRet, exitCode, trace, ubRead, Q0>>

NextTranspose == TransposeThere \/ TransposeBack

SpecTranspose == InitTranspose /\ [][NextTranspose]_vars

-----------------------------------------------------------------------------
(* Properties *)

Terminal == {"returned", "exited", "crashed"}

OpIdx(op) == {i \in DOMAIN trace : trace[i].op = op}

(* the solves whose right-hand side is rhs *)
SolveIdx(rhs) == {i \in OpIdx("dgesv") : rhs \in trace[i].writes \ {trace[i].a}}

(* the multiplies that write buffer b *)
MultiplyIdx(b) == {i \in OpIdx("dgemv") \cup OpIdx("dgemm") : b \in trace[i].writes}

(* every step of S2 has a step of S1 before it *)
Before(S1, S2) == \A j \in S2 : \E i \in S1 : i < j

Allocated(b) == IsBuf(dev[b])

DevBufs == {"Q_tilde_dev", "h_tilde_dev"}

(* C1: whenever the process has ended (return from main, exit, crash), no  *)
(* device buffer is still allocated: both are released on normal           *)
(* completion, and the first is released when the second allocation fails. *)
C1_DeviceBuffersReleased ==
    pc \in Terminal => \A b \in DevBufs : ~Allocated(b)

(* C2: at the end of main, every allocated device buffer has been          *)
(* populated: none of its cells is still unwritten.                        *)
C2_DeviceBuffersPopulated ==
    pc \in {"return", "returned"} =>
        \A b \in DevBufs : Allocated(b) => ~UninitIn(dev[b])

(* C3: after a solve that returned a non-zero status, no multiply reads    *)
(* that solve's right-hand side and main does not return 0.                *)
C3_SolveFailurePropagated ==
    \A i \in OpIdx("dgesv") :
        trace[i].info # 0 =>
            /\ \A j \in OpIdx("dgemv") \cup OpIdx("dgemm") :
                 j > i => trace[j].reads \cap (trace[i].writes \ {trace[i].a}) = {}
            /\ ~(pc = "returned" /\ exitCode = 0)

(* C4: the z-solve is given a duplicate of Q; from the z-solve until the   *)
(* Y-solve Q holds exactly what the provider wrote; the Y-solve factorizes *)
(* Q; and no matrix is given to a solve twice.                             *)
C4_DestructiveConsumption ==
    /\ pc = "dgesv_z" => host["Q_copy_1"] = Q0 /\ host["Q"] = Q0
    /\ SolveIdx("z") # {} /\ SolveIdx("Y") = {} => host["Q"] = Q0
    /\ \A i \in SolveIdx("Y") : trace[i].a = "Q"
    /\ \A i \in SolveIdx("z") : trace[i].a # "Q"
    /\ \A i, j \in OpIdx("dgesv") : i # j => trace[i].a # trace[j].a

(* the z-solve has consumed the duplicate (its cells are now the factors)  *)
(* and Q is intact                                                         *)
C4_Witness ==
    /\ pc = "memcpy_h_tilde"
    /\ host["Q"] = Q0
    /\ host["Q_copy_1"] # Q0

(* C5: a failed allocation of any host buffer, Q_init included, ends the   *)
(* process at once with exit code 305.                                     *)
C5_AllocationFailureExits305 ==
    \A i \in OpIdx("malloc") :
        trace[i].info = 1 =>
            /\ i = Len(trace)
            /\ pc = "exited"
            /\ exitCode = ALLOC_EXIT

NullHanded == \E b \in {"Q", "h", "V", "W"} : ~IsBuf(host[b])

InitMatricesCalled == \E i \in DOMAIN trace : trace[i].a = "init_matrices"

C8_TransposeRoundTrip ==
    LET n == tp.rows * tp.cols
    IN  /\ tp.step >= 1 =>
             /\ \A i \in 0 .. tp.rows - 1 : \A j \in 0 .. tp.cols - 1 :
                  tp.T[j * tp.rows + i] = tp.V0[i * tp.cols + j]
             /\ tp.T[n] = Uninit
             /\ tp.V = tp.V0
        /\ tp.step = 2 =>
             /\ \A k \in 0 .. n - 1 : tp.V2[k] = tp.V0[k]
             /\ tp.V2[n] = Uninit

C8_Witness ==
    /\ tp.step = 2
    /\ tp.rows = 1 /\ tp.cols = 2
    /\ tp.V0[0] # tp.V0[1]
    /\ tp.V2[0] = tp.V0[0] /\ tp.V2[1] = tp.V0[1]

SolveOk(rhs) == \E i \in SolveIdx(rhs) : trace[i].info = 0

IsScenario ==
    /\ Q0 = ScenarioQ /\ host["h"] = ScenarioH
    /\ host["V"] = ScenarioV /\ host["W"] = ScenarioW

(* C9: the right-hand side given to the Y-solve is V' (Y(i,j) = V(j,i));   *)
(* after successful solves Q*z = h, h_tilde = W + V*z, Q*Y = V' and        *)
(* Q_tilde = V*Y over exact arithmetic; and on the reference scenario      *)
(* z = (1/3, 1/3), Q_tilde is symmetric with [0][0] = 1/3, [0][2] = -1/3   *)
(* and h_tilde = (31/3, 31/3, -28/3, -28/3).                               *)
C9_EndToEnd ==
    LET Q == Q0
        h == host["h"]
        V == host["V"]
        W == host["W"]
        z == host["z"]
        Y == host["Y"]
        Qt == host["Q_tilde"]
        ht == host["h_tilde"]
        rows == 0 .. N - 1
        cons == 0 .. 2 * N - 1
    IN  /\ pc = "dgesv_Y" =>
             \A i \in rows : \A j \in cons : Y[j * N + i] = V[i * (2 * N) + j]
        /\ SolveOk("z") /\ MultiplyIdx("h_tilde") # {} =>
             /\ \A i \in rows :
                  SumTo([l \in rows |-> RMul(Q[l * N + i], z[l])], N) = h[i]
             /\ \A i \in cons :
                  ht[i] = RAdd(W[i], SumTo([l \in rows |-> RMul(V[l * (2 * N) + i], z[l])], N))
        /\ SolveOk("Y") /\ MultiplyIdx("Q_tilde") # {} =>
             /\ \A i \in rows : \A j \in cons :
                  SumTo([l \in rows |-> RMul(Q[l * N + i], Y[j * N + l])], N)
                      = V[i * (2 * N) + j]
             /\ \A i \in cons : \A j \in cons :
                  Qt[j * (2 * N) + i]
                      = SumTo([l \in rows |-> RMul(V[l * (2 * N) + i], Y[j * N + l])], N)
        /\ IsScenario /\ MultiplyIdx("Q_tilde") # {} =>
             /\ z = [i \in rows |-> Rat(1, 3)]
             /\ \A i \in cons : \A j \in cons : Qt[j * (2 * N) + i] = Qt[i * (2 * N) + j]
             /\ Qt[0] = Rat(1, 3)
             /\ Qt[2 * (2 * N)] = Rat(-1, 3)
             /\ ht = [i \in cons |-> IF i < N THEN Rat(31, 3) ELSE Rat(-28, 3)]

C9_Witness ==
    /\ pc = "returned"
    /\ IsScenario
    /\ SolveOk("z") /\ SolveOk("Y")
    /\ host["h_tilde"][0] = Rat(31, 3)
    /\ host["Q_tilde"][0] = Rat(1, 3)

(* C10: no step reads a cell that was never written, and once              *)
(* init_matrices has returned every cell of V has been written.            *)
C10_NoUninitializedRead ==
    /\ ubRead = {}
    /\ initRet = EXIT_SUCCESS => ~UninitIn(host["V"])

====
